---- MODULE Spec2Model ----
(***************************************************************************)
(* The call-recording uploader: the Recordings screen's background poll    *)
(* loop (backgroundRecordingTask / checkForNewRecordings /                 *)
(* sendRecordingToAPI), the persisted key-value entries it reads and       *)
(* writes, and the start / stop / logout / login handlers that control it. *)
(***************************************************************************)
EXTENDS Integers, Sequences, FiniteSets

VARIABLES
    stUserData,      \* AsyncStorage 'userData': 0 = no item, else a profile
    stTimestamp,     \* AsyncStorage 'lastRecordingTimestamp': a decimal string, <<>> = no item
    stRunning,       \* AsyncStorage 'backgroundServiceRunning': "null" (no item), "true", "false"
    hostRunning,     \* BackgroundService.isRunning()
    screen,          \* App: isLoggedIn ? Recordings : Auth
    userData,        \* Recordings state userData (0 = null)
    isBackgroundServiceRunning, \* Recordings state
    initPending,     \* the mount effect initializeApp has not finished
    startPending,    \* startBackgroundService calls past BackgroundService.start, not yet returned
    logoutAlert,     \* the logout confirmation: "none", or what its onPress closure captured
    files,           \* the scanned folder: file id -> directory entry
    pc,              \* each loop instance's position
    loopUser,        \* the userData each loop instance's closure captured
    newRecordings,   \* each loop instance's newRecordings array of the current pass
    results,         \* outcome of each candidate processed so far in the current pass
    lastPass,        \* history: how each loop instance's latest pass went
    prevFailed,      \* history: candidates whose upload failed in the loop's previous pass
    uploaded,        \* history: files the server has received (an upload returned Success)
    firstTimestamp,  \* history: the value the watermark was initialised with (-1 = not yet)
    call             \* the latest application of a helper function: name, argument, result

vars == <<stUserData, stTimestamp, stRunning, hostRunning, screen, userData,
          isBackgroundServiceRunning, initPending, startPending, logoutAlert,
          files, pc, loopUser, newRecordings, results, lastPass, prevFailed,
          uploaded, firstTimestamp, call>>

storeVars == <<stUserData, stTimestamp, stRunning>>
uiVars    == <<screen, userData, isBackgroundServiceRunning, initPending,
               startPending, logoutAlert>>
loopVars  == <<pc, loopUser, newRecordings, results, lastPass, prevFailed>>
histVars  == <<uploaded, firstTimestamp>>

----------------------------------------------------------------------------
(* Bounds *)
NFiles    == 2      \* recordings that appear while the whole app is explored
MaxTime   == 2
MaxLoops  == 2
NProfiles == 1
PipelineFiles   == 3   \* recordings that appear while only the pipeline is explored
PipelineTime    == 3
SessionProfiles == 2   \* profiles that log in while only the session is explored

AppFileIds == 1..NFiles
FileIds  == 1..PipelineFiles      \* the entries the folder can hold
Loops    == 1..MaxLoops
Profiles == 1..NProfiles
MTimes   == 1..MaxTime      \* modification instants of recordings
Clock    == 0..MaxTime      \* values Date.now() may return

NoFile == [exists |-> FALSE, mtime |-> 0, nameTime |-> 0, named |-> FALSE]

\* No helper function has been applied.
NoCall == [fn |-> "none", arg |-> <<>>, ret |-> <<>>]

----------------------------------------------------------------------------
(* number.toString() and parseInt(string, 10) on non-negative integers;    *)
(* a string is the sequence of its decimal digits.                          *)
RECURSIVE ToString(_)
ToString(n) == IF n < 10 THEN <<n>> ELSE Append(ToString(n \div 10), n % 10)

RECURSIVE ParseInt(_)
ParseInt(s) ==
    IF Len(s) = 1 THEN s[1]
    ELSE 10 * ParseInt(SubSeq(s, 1, Len(s) - 1)) + s[Len(s)]

Range(s) == {s[i] : i \in 1..Len(s)}

Orderings(S) ==
    {q \in [1..Cardinality(S) -> S] : \A i, j \in 1..Cardinality(S) : i # j => q[i] # q[j]}

----------------------------------------------------------------------------
(* Filesystem scanner *)

\* files.filter(f => f.isFile() && (name ends .mp3 or .m4a))
AudioFiles == {f \in FileIds : files[f].exists}

\* stat.mtime ? getTime : parseDateFromName(name) ? getTime : 0
FileTime(f) ==
    IF files[f].mtime # 0 THEN files[f].mtime
    ELSE IF files[f].nameTime # 0 THEN files[f].nameTime
    ELSE 0

\* mtime: stat.mtime || parseDateFromName(file.name)   (0 = null)
RecordingMtime(f) ==
    IF files[f].mtime # 0 THEN files[f].mtime ELSE files[f].nameTime

\* Mutant of IsNew: the filter written with >= instead of >.
IsNewInclusive(f, lastProcessedTimestamp) == FileTime(f) >= lastProcessedTimestamp

\* if (fileTime > lastProcessedTimestamp) newRecordings.push(...)
IsNew(f, lastProcessedTimestamp) == FileTime(f) > lastProcessedTimestamp

NewSet(lastProcessedTimestamp) ==
    {f \in AudioFiles : IsNew(f, lastProcessedTimestamp)}

----------------------------------------------------------------------------
Init ==
    /\ stUserData = 0
    /\ stTimestamp = <<>>
    /\ stRunning = "null"
    /\ hostRunning = FALSE
    /\ screen = "auth"
    /\ userData = 0
    /\ isBackgroundServiceRunning = FALSE
    /\ initPending = FALSE
    /\ startPending = 0
    /\ logoutAlert = "none"
    /\ files = [f \in FileIds |-> NoFile]
    /\ pc = [l \in Loops |-> "none"]
    /\ loopUser = [l \in Loops |-> 0]
    /\ newRecordings = [l \in Loops |-> <<>>]
    /\ results = [l \in Loops |-> <<>>]
    /\ lastPass = [l \in Loops |-> "none"]
    /\ prevFailed = [l \in Loops |-> {}]
    /\ uploaded = {}
    /\ firstTimestamp = -1
    /\ call = NoCall

----------------------------------------------------------------------------
(* Login screen and Recordings screen handlers *)

\* Auth.handleSubmit: store the profile, then App shows a freshly mounted
\* Recordings screen.  Filling the form takes far longer than the native calls a
\* press of Start awaits, so no startBackgroundService call is still in flight.
Login(p) ==
    /\ screen = "auth"
    /\ startPending = 0
    /\ stUserData' = p
    /\ screen' = "recordings"
    /\ userData' = 0
    /\ isBackgroundServiceRunning' = FALSE
    /\ initPending' = TRUE
    /\ UNCHANGED <<stTimestamp, stRunning, hostRunning, startPending, logoutAlert,
                   files, call, loopVars, histVars>>

\* The mount effect: getUserData() then getBackgroundServiceRunning().
InitializeApp ==
    /\ screen = "recordings"
    /\ initPending
    /\ initPending' = FALSE
    /\ userData' = stUserData
    /\ isBackgroundServiceRunning' = (stRunning = "true")
    /\ UNCHANGED <<storeVars, hostRunning, screen, startPending, logoutAlert,
                   files, call, loopVars, histVars>>

\* The Start button is shown while the state isBackgroundServiceRunning is false.
StartButtonShown ==
    /\ screen = "recordings"
    /\ logoutAlert = "none"
    /\ ~isBackgroundServiceRunning

StopButtonShown ==
    /\ screen = "recordings"
    /\ logoutAlert = "none"
    /\ isBackgroundServiceRunning

\* A loop instance that is not executing can host the next task.
FreeLoop(l) == pc[l] \in {"none", "done", "crashed"}

\* startBackgroundService up to its first await returning:
\* BackgroundService.start(backgroundRecordingTask, options) marks the host
\* running and runs the task, whose closure holds this render's userData.
\* At most MaxLoops presses are in flight at once.
StartService(l) ==
    /\ StartButtonShown
    /\ startPending < MaxLoops
    /\ FreeLoop(l)
    /\ \A k \in Loops : k < l => ~FreeLoop(k)
    /\ hostRunning' = TRUE
    /\ pc' = [pc EXCEPT ![l] = "wait"]
    /\ loopUser' = [loopUser EXCEPT ![l] = userData]
    /\ newRecordings' = [newRecordings EXCEPT ![l] = <<>>]
    /\ results' = [results EXCEPT ![l] = <<>>]
    /\ lastPass' = [lastPass EXCEPT ![l] = "none"]
    /\ prevFailed' = [prevFailed EXCEPT ![l] = {}]
    /\ startPending' = startPending + 1
    /\ UNCHANGED <<storeVars, screen, userData, isBackgroundServiceRunning,
                   initPending, logoutAlert, files, call, histVars>>

\* The rest of startBackgroundService: updateNotification,
\* setIsBackgroundServiceRunning(true), setBackgroundServiceRunning(true).
StartDone ==
    /\ startPending > 0
    /\ startPending' = startPending - 1
    /\ isBackgroundServiceRunning' =
          IF screen = "recordings" THEN TRUE ELSE isBackgroundServiceRunning
    /\ stRunning' = "true"
    /\ UNCHANGED <<stUserData, stTimestamp, hostRunning, screen, userData,
                   initPending, logoutAlert, files, call, loopVars, histVars>>

\* Mutant of StopService: a stop that also cancels the loop instances,
\* dropping an upload in flight.
StopServiceAborts ==
    /\ StopButtonShown
    /\ hostRunning' = FALSE
    /\ isBackgroundServiceRunning' = FALSE
    /\ stRunning' = "false"
    /\ pc' = [l \in Loops |-> IF pc[l] = "none" THEN "none" ELSE "done"]
    /\ UNCHANGED <<stUserData, stTimestamp, screen, userData, initPending,
                   startPending, logoutAlert, files, call, loopUser, newRecordings,
                   results, lastPass, prevFailed, histVars>>

\* stopBackgroundService: BackgroundService.stop(),
\* setIsBackgroundServiceRunning(false), setBackgroundServiceRunning(false).
\* The host only clears its running mark; a loop instance sees it at its next
\* evaluation of BackgroundService.isRunning().
StopService ==
    /\ StopButtonShown
    /\ hostRunning' = FALSE
    /\ isBackgroundServiceRunning' = FALSE
    /\ stRunning' = "false"
    /\ UNCHANGED <<stUserData, stTimestamp, screen, userData, initPending,
                   startPending, logoutAlert, files, call, loopVars, histVars>>

\* handleLogout: show the confirmation; its Logout button's onPress closes over
\* this render's isBackgroundServiceRunning.
LogoutPress ==
    /\ screen = "recordings"
    /\ logoutAlert = "none"
    /\ logoutAlert' = IF isBackgroundServiceRunning THEN "stop" ELSE "keep"
    /\ UNCHANGED <<storeVars, hostRunning, screen, userData,
                   isBackgroundServiceRunning, initPending, startPending,
                   files, call, loopVars, histVars>>

LogoutCancel ==
    /\ logoutAlert # "none"
    /\ logoutAlert' = "none"
    /\ UNCHANGED <<storeVars, hostRunning, screen, userData,
                   isBackgroundServiceRunning, initPending, startPending,
                   files, call, loopVars, histVars>>

\* Mutant of LogoutConfirm: the logout clears the whole store, as its
\* confirmation text announces.
LogoutConfirmClearsAll ==
    /\ logoutAlert # "none"
    /\ hostRunning' = IF logoutAlert = "stop" THEN FALSE ELSE hostRunning
    /\ isBackgroundServiceRunning' =
          IF logoutAlert = "stop" THEN FALSE ELSE isBackgroundServiceRunning
    /\ stUserData' = 0
    /\ stRunning' = "null"
    /\ stTimestamp' = <<>>
    /\ logoutAlert' = "none"
    /\ screen' = "auth"
    /\ initPending' = FALSE
    /\ UNCHANGED <<userData, startPending, files, call, loopVars, histVars>>

\* The confirmation's onPress: stop the service if the captured state says it
\* runs, remove userData and the running flag, then onLogout() shows Auth.
LogoutConfirm ==
    /\ logoutAlert # "none"
    /\ hostRunning' = IF logoutAlert = "stop" THEN FALSE ELSE hostRunning
    /\ isBackgroundServiceRunning' =
          IF logoutAlert = "stop" THEN FALSE ELSE isBackgroundServiceRunning
    /\ stUserData' = 0
    /\ stRunning' = "null"
    /\ logoutAlert' = "none"
    /\ screen' = "auth"
    /\ initPending' = FALSE
    /\ UNCHANGED <<stTimestamp, userData, startPending, files, call, loopVars, histVars>>

----------------------------------------------------------------------------
(* The folder: the recorder writes recordings one after another, each with  *)
(* a later modification instant than the one before.                        *)
FileAppears(f, t, n) ==
    /\ ~files[f].exists
    /\ \A g \in FileIds : g < f => files[g].exists /\ files[g].mtime < t
    /\ files' = [files EXCEPT ![f] =
                    [exists |-> TRUE, mtime |-> t, nameTime |-> 0, named |-> n]]
    /\ UNCHANGED <<storeVars, hostRunning, uiVars, loopVars, histVars, call>>

----------------------------------------------------------------------------
(* File names.  A string is the sequence of its characters.  A recording    *)
(* written by the call recorder is named after the call, with the number    *)
(* as third word; other audio files are not.                                *)
CallName ==
    <<"C", "a", "l", "l", " ", "t", "o", " ", "+", "9", "1", "9", "8", "7", "6",
      "5", "4", "3", "2", "1", "0", "_", "2", "1", "1", "0", "0", "6", "_",
      "0", "8", "5", "8", "4", "3", ".", "m", "4", "a">>
OtherName ==
    <<"R", "E", "C", "_", "2", "1", "1", "0", "0", "6", "_",
      "0", "8", "5", "8", "4", "3", ".", "m", "4", "a">>

\* recording.name
RecordingName(f) == IF files[f].named THEN CallName ELSE OtherName

\* string.split(separator): the pieces between the separators, left to right.
\* Pieces takes the string as a value, so that it is worked out once.
Pieces(v, separator) ==
    LET from[i \in 1..(Len(v) + 1)] ==
            IF \A j \in i..Len(v) : v[j] # separator
            THEN <<SubSeq(v, i, Len(v))>>
            ELSE LET first == CHOOSE j \in i..Len(v) :
                                 v[j] = separator /\ \A k \in i..(j - 1) : v[k] # separator
                 IN  <<SubSeq(v, i, first - 1)>> \o from[first + 1]
    IN  from[1]

Split(s, separator) == CHOOSE r \in {Pieces(v, separator) : v \in {s}} : TRUE

\* name.split('_')[0].split(' ')
NameTokens(name) == Split(Split(name, "_")[1], " ")

\* cleanNumber(name.split('_')[0].split(' ')[2]) throws: index 2 is undefined
\* and undefined.startsWith is a TypeError.
PhoneNumberThrows(name) == Len(NameTokens(name)) < 3

----------------------------------------------------------------------------
(* Persisted watermark *)

\* setLastRecordingTimestamp: setItem(KEY, timestamp.toString())
SetLastRecordingTimestamp(timestamp) == ToString(timestamp)

\* getLastRecordingTimestamp when an item is stored: parseInt(timestamp, 10)
StoredTimestamp == ParseInt(stTimestamp)

\* The watermark as the next read returns it, -1 when no item is stored.
Watermark == IF stTimestamp = <<>> THEN -1 ELSE StoredTimestamp

----------------------------------------------------------------------------
(* The poll loop: backgroundRecordingTask, one instance per started task.   *)
(* A loop instance runs from one await to the next without interruption;    *)
(* its positions are the awaits it can be suspended in:                     *)
(*   "wait"   - launched, or in sleep(delay): the loop condition is next    *)
(*   "upload" - in sendRecordingToAPI, awaiting uploadCallRecording         *)
(*   "pause"  - in sleep(1000) after a candidate                            *)
(*   "done"   - the loop condition was false                                *)
(*   "crashed" - an awaited updateNotification rejected inside the loop     *)

InPass(l) == pc[l] \in {"upload", "pause"}

\* The candidate whose upload the loop instance awaits: newRecordings[index].
Current(l) == newRecordings[l][Len(results[l]) + 1]

\* The candidates of the pass whose upload returned a Failure result.
Failed(l) ==
    {newRecordings[l][i] : i \in {j \in 1..Len(results[l]) : results[l][j] = "failed"}}

\* Mutant of Send: the request is issued whatever the name.
SendAlways(l, order, done) ==
    /\ pc' = [pc EXCEPT ![l] = "upload"]
    /\ results' = [results EXCEPT ![l] = done]

\* sendRecordingToAPI(recording) up to its await.  Building callData evaluates
\* cleanNumber(recording.name.split('_')[0].split(' ')[2]); for a name without
\* a third token that is cleanNumber(undefined), which throws, and the catch
\* logs it: no request is issued.  Otherwise uploadCallRecording is awaited.
Send(l, order, done) ==
    IF ~PhoneNumberThrows(RecordingName(order[Len(done) + 1]))
    THEN /\ pc' = [pc EXCEPT ![l] = "upload"]
         /\ results' = [results EXCEPT ![l] = done]
    ELSE /\ pc' = [pc EXCEPT ![l] = "pause"]
         /\ results' = [results EXCEPT ![l] = Append(done, "threw")]

\* for (...; BackgroundService.isRunning(); ...) evaluates to false: the loop ends.
LoopExit(l) ==
    /\ pc[l] = "wait"
    /\ ~hostRunning
    /\ pc' = [pc EXCEPT ![l] = "done"]
    /\ loopUser' = [loopUser EXCEPT ![l] = 0]
    /\ lastPass' = [lastPass EXCEPT ![l] = "none"]
    /\ prevFailed' = [prevFailed EXCEPT ![l] = {}]
    /\ UNCHANGED <<storeVars, hostRunning, uiVars, files, call,
                   newRecordings, results, histVars>>

\* await BackgroundService.updateNotification(...) at the head of an iteration
\* rejects.  Nothing inside the loop catches it: the async executor of
\* new Promise(async (resolve) => { for ... }) ends with a rejected promise,
\* resolve is never called and the outer try/catch never runs.  The loop
\* instance makes no further iteration; the host's running mark is untouched.
NotificationFails(l) ==
    /\ pc[l] = "wait"
    /\ hostRunning
    /\ pc' = [pc EXCEPT ![l] = "crashed"]
    /\ loopUser' = [loopUser EXCEPT ![l] = 0]
    /\ lastPass' = [lastPass EXCEPT ![l] = "none"]
    /\ prevFailed' = [prevFailed EXCEPT ![l] = {}]
    /\ UNCHANGED <<storeVars, hostRunning, uiVars, files, call,
                   newRecordings, results, histVars>>

\* Mutant of PassFails: the failure reaches the tick loop and ends it.
PassFailsRaises(l) ==
    /\ pc[l] = "wait"
    /\ hostRunning
    /\ loopUser[l] # 0
    /\ pc' = [pc EXCEPT ![l] = "crashed"]
    /\ lastPass' = [lastPass EXCEPT ![l] = "error"]
    /\ prevFailed' = [prevFailed EXCEPT ![l] = {}]
    /\ UNCHANGED <<storeVars, hostRunning, uiVars, files, call, loopUser,
                   newRecordings, results, histVars>>

\* checkForNewRecordings ends before the watermark is read because the
\* folder cannot be listed: RNFS.exists is false (return), or RNFS.exists or
\* RNFS.readDir rejects (outer catch).  The pass returns and the loop enters
\* sleep(delay).
PassFails(l) ==
    /\ pc[l] = "wait"
    /\ hostRunning
    /\ loopUser[l] # 0
    /\ lastPass' = [lastPass EXCEPT ![l] = "error"]
    /\ prevFailed' = [prevFailed EXCEPT ![l] = {}]
    /\ UNCHANGED <<storeVars, hostRunning, uiVars, files, call, pc, loopUser,
                   newRecordings, results, histVars>>

\* Mutant of PassNoProfile: the watermark read (and initialised) before the
\* profile is looked at.
PassNoProfileInitialises(l) ==
    /\ pc[l] = "wait"
    /\ hostRunning
    /\ loopUser[l] = 0
    /\ lastPass' = [lastPass EXCEPT ![l] = "noprofile"]
    /\ prevFailed' = [prevFailed EXCEPT ![l] = {}]
    /\ \E currentTime \in Clock :
          /\ stTimestamp' = IF stTimestamp = <<>> THEN ToString(currentTime)
                                                  ELSE stTimestamp
          /\ firstTimestamp' = IF stTimestamp = <<>> THEN currentTime
                                                     ELSE firstTimestamp
    /\ UNCHANGED <<stUserData, stRunning, hostRunning, uiVars, files, call, pc,
                   loopUser, newRecordings, results, uploaded>>

\* checkForNewRecordings with no userData in the closure: log and return, then
\* sleep(delay).
PassNoProfile(l) ==
    /\ pc[l] = "wait"
    /\ hostRunning
    /\ loopUser[l] = 0
    /\ lastPass' = [lastPass EXCEPT ![l] = "noprofile"]
    /\ prevFailed' = [prevFailed EXCEPT ![l] = {}]
    /\ UNCHANGED <<storeVars, hostRunning, uiVars, files, call, pc, loopUser,
                   newRecordings, results, histVars>>

\* The pass from the value getLastRecordingTimestamp returned to its first
\* await of an upload: filter the audio files of readDir's listing, stat each,
\* keep those newer than the watermark in the listing's order, send the first.
\* With nothing new the pass is over and the loop sleeps.
ScanWith(l, lastProcessedTimestamp, order) ==
    /\ order \in Orderings(NewSet(lastProcessedTimestamp))
    /\ prevFailed' = [prevFailed EXCEPT ![l] = {}]
    /\ IF Len(order) = 0
       THEN /\ lastPass' = [lastPass EXCEPT ![l] = "empty"]
            /\ UNCHANGED <<pc, newRecordings, results>>
       ELSE /\ lastPass' = [lastPass EXCEPT ![l] = "uploads"]
            /\ newRecordings' = [newRecordings EXCEPT ![l] = order]
            /\ Send(l, order, <<>>)

\* checkForNewRecordings when an item is stored under lastRecordingTimestamp.
PassScan(l) ==
    /\ pc[l] = "wait"
    /\ hostRunning
    /\ loopUser[l] # 0
    /\ stTimestamp # <<>>
    /\ \E order \in UNION {Orderings(S) : S \in SUBSET FileIds} :
          ScanWith(l, StoredTimestamp, order)
    /\ UNCHANGED <<storeVars, hostRunning, uiVars, files, call, loopUser, histVars>>

\* Mutant of PassScanFirst: Date.now() is stored but the first read answers 0.
PassScanFirstFromZero(l) ==
    /\ pc[l] = "wait"
    /\ hostRunning
    /\ loopUser[l] # 0
    /\ stTimestamp = <<>>
    /\ \E currentTime \in Clock :
          /\ stTimestamp' = ToString(currentTime)
          /\ firstTimestamp' = currentTime
          /\ \E order \in UNION {Orderings(S) : S \in SUBSET FileIds} :
                ScanWith(l, 0, order)
    /\ UNCHANGED <<stUserData, stRunning, hostRunning, uiVars, files, call, loopUser, uploaded>>

\* checkForNewRecordings when no item is stored: getLastRecordingTimestamp
\* stores Date.now() and returns it.
PassScanFirst(l) ==
    /\ pc[l] = "wait"
    /\ hostRunning
    /\ loopUser[l] # 0
    /\ stTimestamp = <<>>
    /\ \E currentTime \in Clock :
          /\ stTimestamp' = SetLastRecordingTimestamp(currentTime)
          /\ firstTimestamp' = currentTime
          /\ \E order \in UNION {Orderings(S) : S \in SUBSET FileIds} :
                ScanWith(l, currentTime, order)
    /\ UNCHANGED <<stUserData, stRunning, hostRunning, uiVars, files, call, loopUser, uploaded>>

\* Mutant of TimestampAfterSuccess: the newest audio file's time is stored.
TimestampAfterSuccessNewest(f) ==
    SetLastRecordingTimestamp(
        CHOOSE t \in {FileTime(g) : g \in AudioFiles} :
            \A g \in AudioFiles : FileTime(g) <= t)

\* Mutant of PassScanStat: the rejected RNFS.stat ends the whole pass.
PassScanStatAborts(l, failed) ==
    /\ pc[l] = "wait"
    /\ hostRunning
    /\ loopUser[l] # 0
    /\ failed \in AudioFiles
    /\ \E currentTime \in Clock :
          /\ stTimestamp' = IF stTimestamp = <<>>
                            THEN SetLastRecordingTimestamp(currentTime)
                            ELSE stTimestamp
          /\ firstTimestamp' = IF stTimestamp = <<>> THEN currentTime
                                                     ELSE firstTimestamp
    /\ lastPass' = [lastPass EXCEPT ![l] = "error"]
    /\ prevFailed' = [prevFailed EXCEPT ![l] = {}]
    /\ UNCHANGED <<stUserData, stRunning, hostRunning, uiVars, files, call, loopUser,
                   uploaded, pc, newRecordings, results>>

\* checkForNewRecordings when RNFS.stat rejects for the audio file failed:
\* the inner catch logs it and the file is not pushed to newRecordings.  The
\* watermark is read (and initialised when absent) before the files are
\* looked at.
PassScanStat(l, failed) ==
    /\ pc[l] = "wait"
    /\ hostRunning
    /\ loopUser[l] # 0
    /\ failed \in AudioFiles
    /\ \E currentTime \in Clock :
          LET lastProcessedTimestamp ==
                  IF stTimestamp = <<>> THEN currentTime ELSE StoredTimestamp
          IN  /\ stTimestamp' = IF stTimestamp = <<>>
                                THEN SetLastRecordingTimestamp(currentTime)
                                ELSE stTimestamp
              /\ firstTimestamp' = IF stTimestamp = <<>> THEN currentTime
                                                         ELSE firstTimestamp
              /\ \E order \in Orderings(NewSet(lastProcessedTimestamp) \ {failed}) :
                    /\ prevFailed' = [prevFailed EXCEPT ![l] = {}]
                    /\ IF Len(order) = 0
                       THEN /\ lastPass' = [lastPass EXCEPT ![l] = "empty"]
                            /\ UNCHANGED <<pc, newRecordings, results>>
                       ELSE /\ lastPass' = [lastPass EXCEPT ![l] = "uploads"]
                            /\ newRecordings' = [newRecordings EXCEPT ![l] = order]
                            /\ Send(l, order, <<>>)
    /\ UNCHANGED <<stUserData, stRunning, hostRunning, uiVars, files, call, loopUser, uploaded>>

\* What sendRecordingToAPI stores after result.success:
\* if (recording.mtime) setLastRecordingTimestamp(new Date(recording.mtime).getTime())
TimestampAfterSuccess(f) ==
    IF RecordingMtime(f) # 0
    THEN SetLastRecordingTimestamp(RecordingMtime(f))
    ELSE stTimestamp

\* Mutant of UploadSuccess: the next candidate's upload is started at once,
\* without the sleep(1000) between two candidates.
UploadSuccessNoPause(l) ==
    /\ pc[l] = "upload"
    /\ stTimestamp' = TimestampAfterSuccess(Current(l))
    /\ uploaded' = uploaded \cup {Current(l)}
    /\ results' = [results EXCEPT ![l] = Append(@, "ok")]
    /\ pc' = [pc EXCEPT ![l] = IF Len(results[l]) + 1 < Len(newRecordings[l])
                                THEN "upload" ELSE "pause"]
    /\ UNCHANGED <<stUserData, stRunning, hostRunning, uiVars, files, call, loopUser,
                   newRecordings, lastPass, prevFailed, firstTimestamp>>

\* uploadCallRecording returned {success: true}.
UploadSuccess(l) ==
    /\ pc[l] = "upload"
    /\ stTimestamp' = TimestampAfterSuccess(Current(l))
    /\ uploaded' = uploaded \cup {Current(l)}
    /\ results' = [results EXCEPT ![l] = Append(@, "ok")]
    /\ pc' = [pc EXCEPT ![l] = "pause"]
    /\ UNCHANGED <<stUserData, stRunning, hostRunning, uiVars, files, call, loopUser,
                   newRecordings, lastPass, prevFailed, firstTimestamp>>

\* Mutant of TimestampAfterFailure: the watermark written whatever the result.
TimestampAfterFailureWrites(f) ==
    IF RecordingMtime(f) # 0
    THEN SetLastRecordingTimestamp(RecordingMtime(f))
    ELSE stTimestamp

\* What sendRecordingToAPI stores after a Failure result: nothing.
TimestampAfterFailure(f) == stTimestamp

\* uploadCallRecording returned {success: false, error}.
UploadFailure(l) ==
    /\ pc[l] = "upload"
    /\ stTimestamp' = TimestampAfterFailure(Current(l))
    /\ results' = [results EXCEPT ![l] = Append(@, "failed")]
    /\ pc' = [pc EXCEPT ![l] = "pause"]
    /\ UNCHANGED <<stUserData, stRunning, hostRunning, uiVars, files, call, loopUser,
                   newRecordings, lastPass, prevFailed, histVars>>

\* Mutant of PauseNext: the pass looks at BackgroundService.isRunning()
\* between two candidates and gives up the remaining ones after a stop.
PauseNextChecksStop(l) ==
    /\ pc[l] = "pause"
    /\ Len(results[l]) < Len(newRecordings[l])
    /\ IF hostRunning
       THEN /\ Send(l, newRecordings[l], results[l])
            /\ UNCHANGED <<newRecordings, prevFailed>>
       ELSE /\ pc' = [pc EXCEPT ![l] = "wait"]
            /\ prevFailed' = [prevFailed EXCEPT ![l] = Failed(l)]
            /\ newRecordings' = [newRecordings EXCEPT ![l] = <<>>]
            /\ results' = [results EXCEPT ![l] = <<>>]
    /\ UNCHANGED <<storeVars, hostRunning, uiVars, files, call, loopUser,
                   lastPass, histVars>>

\* sleep(1000) after a candidate is over and another candidate follows.
PauseNext(l) ==
    /\ pc[l] = "pause"
    /\ Len(results[l]) < Len(newRecordings[l])
    /\ Send(l, newRecordings[l], results[l])
    /\ UNCHANGED <<storeVars, hostRunning, uiVars, files, call, loopUser,
                   newRecordings, lastPass, prevFailed, histVars>>

\* sleep(1000) after the last candidate is over: the pass returns and the loop
\* enters sleep(delay).
PassEnd(l) ==
    /\ pc[l] = "pause"
    /\ Len(results[l]) = Len(newRecordings[l])
    /\ pc' = [pc EXCEPT ![l] = "wait"]
    /\ prevFailed' = [prevFailed EXCEPT ![l] = Failed(l)]
    /\ newRecordings' = [newRecordings EXCEPT ![l] = <<>>]
    /\ results' = [results EXCEPT ![l] = <<>>]
    /\ UNCHANGED <<storeVars, hostRunning, uiVars, files, call, loopUser, lastPass, histVars>>

LoopStep(l) ==
    \/ LoopExit(l)
    \/ PassNoProfile(l)
    \/ PassScan(l)
    \/ PassScanFirst(l)
    \/ UploadSuccess(l)
    \/ UploadFailure(l)
    \/ PauseNext(l)
    \/ PassEnd(l)

----------------------------------------------------------------------------
Next ==
    \/ \E p \in Profiles : Login(p)
    \/ InitializeApp
    \/ \E l \in Loops : StartService(l)
    \/ StartDone
    \/ StopService
    \/ LogoutPress
    \/ LogoutCancel
    \/ LogoutConfirm
    \/ \E f \in AppFileIds, t \in MTimes, n \in BOOLEAN : FileAppears(f, t, n)
    \/ \E l \in Loops : LoopExit(l)
    \/ \E l \in Loops : NotificationFails(l)
    \/ \E l \in Loops : PassFails(l)
    \/ \E l \in Loops : PassNoProfile(l)
    \/ \E l \in Loops : PassScan(l)
    \/ \E l \in Loops : PassScanFirst(l)
    \/ \E l \in Loops : UploadSuccess(l)
    \/ \E l \in Loops : UploadFailure(l)
    \/ \E l \in Loops : PauseNext(l)
    \/ \E l \in Loops : PassEnd(l)

Spec == Init /\ [][Next]_vars

----------------------------------------------------------------------------
(* Fairness for the eventual-upload property: every loop instance keeps      *)
(* taking its steps (timers fire, requests return), and an upload of a file  *)
(* that is attempted again and again eventually succeeds.                    *)
Fairness ==
    /\ \A l \in Loops : WF_vars(LoopStep(l))
    /\ \A l \in Loops, f \in AppFileIds :
          SF_vars(UploadSuccess(l) /\ Current(l) = f)

LiveSpec == Init /\ [][Next]_vars /\ Fairness

----------------------------------------------------------------------------
(* Helper functions.  A string is the sequence of its characters.           *)

appVars == <<storeVars, hostRunning, uiVars, files, loopVars, histVars>>

\* string.startsWith(prefix)
StartsWith(s, prefix) ==
    /\ Len(s) >= Len(prefix)
    /\ SubSeq(s, 1, Len(prefix)) = prefix

\* string.slice(start)
Slice(s, start) == SubSeq(s, start + 1, Len(s))

\* Mutant of CleanNumber: prefixes stripped for as long as one is found.
RECURSIVE CleanNumberRepeated(_)
CleanNumberRepeated(number) ==
    IF StartsWith(number, <<"+", "9", "1">>) THEN CleanNumberRepeated(Slice(number, 3))
    ELSE IF StartsWith(number, <<"9", "1">>) THEN CleanNumberRepeated(Slice(number, 2))
    ELSE IF StartsWith(number, <<"0">>) THEN CleanNumberRepeated(Slice(number, 1))
    ELSE number

\* cleanNumber
CleanNumber(number) ==
    IF StartsWith(number, <<"+", "9", "1">>) THEN Slice(number, 3)
    ELSE IF StartsWith(number, <<"9", "1">>) THEN Slice(number, 2)
    ELSE IF StartsWith(number, <<"0">>) THEN Slice(number, 1)
    ELSE number

\* The numbers cleanNumber is applied to: every string of at most
\* MaxNumberLen characters over NumberChars, and four ten-digit numbers
\* written with each prefix.
MaxNumberLen == 3
NumberChars == {"+", "9", "1", "0", "7"}
TenDigits == <<"9", "8", "7", "6", "5", "4", "3", "2", "1", "0">>
Numbers ==
    UNION {[1..n -> NumberChars] : n \in 0..MaxNumberLen}
      \cup {<<"+", "9", "1">> \o TenDigits, <<"9", "1">> \o TenDigits,
            <<"0">> \o TenDigits, TenDigits}

CallCleanNumber(number) ==
    /\ call = NoCall
    /\ call' = [fn |-> "cleanNumber", arg |-> number, ret |-> CleanNumber(number)]
    /\ UNCHANGED appVars

----------------------------------------------------------------------------
\* \d and parseInt on a string of digits
DigitChars == <<"0", "1", "2", "3", "4", "5", "6", "7", "8", "9">>
IsDigit(c) == \E d \in 1..10 : DigitChars[d] = c
DigitValue(c) == (CHOOSE d \in 1..10 : DigitChars[d] = c) - 1
ParseIntChars(s) == ParseInt([i \in 1..Len(s) |-> DigitValue(s[i])])

\* name.match(/_(\d{6})_(\d{6})/) finds a match that starts at index i
MatchAt(name, i) ==
    /\ i + 13 <= Len(name)
    /\ name[i] = "_"
    /\ \A k \in 1..6 : IsDigit(name[i + k])
    /\ name[i + 7] = "_"
    /\ \A k \in 8..13 : IsDigit(name[i + k])

\* new Date(year, month, day, hour, min, sec): the local time with these
\* fields (all fields drawn here are within a calendar date's ranges), and null.
LocalDate(year, month, day, hour, min, sec) ==
    [isNull |-> FALSE, year |-> year, month |-> month, day |-> day,
     hour |-> hour, min |-> min, sec |-> sec]
NullDate ==
    [isNull |-> TRUE, year |-> 0, month |-> 0, day |-> 0,
     hour |-> 0, min |-> 0, sec |-> 0]

\* Mutant of ParseDateFromName: the month taken as the month index.
ParseDateFromNameMonthAsIndex(name) ==
    IF \E i \in 1..Len(name) : MatchAt(name, i)
    THEN LET i == CHOOSE j \in 1..Len(name) :
                     MatchAt(name, j) /\ \A k \in 1..(j - 1) : ~MatchAt(name, k)
             yymmdd == SubSeq(name, i + 1, i + 6)
             hhmmss == SubSeq(name, i + 8, i + 13)
         IN  LocalDate(2000 + ParseIntChars(SubSeq(yymmdd, 1, 2)),
                       ParseIntChars(SubSeq(yymmdd, 3, 4)),
                       ParseIntChars(SubSeq(yymmdd, 5, 6)),
                       ParseIntChars(SubSeq(hhmmss, 1, 2)),
                       ParseIntChars(SubSeq(hhmmss, 3, 4)),
                       ParseIntChars(SubSeq(hhmmss, 5, 6)))
    ELSE NullDate

\* parseDateFromName: the leftmost match decides.
ParseDateFromName(name) ==
    IF \E i \in 1..Len(name) : MatchAt(name, i)
    THEN LET i == CHOOSE j \in 1..Len(name) :
                     MatchAt(name, j) /\ \A k \in 1..(j - 1) : ~MatchAt(name, k)
             yymmdd == SubSeq(name, i + 1, i + 6)
             hhmmss == SubSeq(name, i + 8, i + 13)
         IN  LocalDate(2000 + ParseIntChars(SubSeq(yymmdd, 1, 2)),
                       ParseIntChars(SubSeq(yymmdd, 3, 4)) - 1,
                       ParseIntChars(SubSeq(yymmdd, 5, 6)),
                       ParseIntChars(SubSeq(hhmmss, 1, 2)),
                       ParseIntChars(SubSeq(hhmmss, 3, 4)),
                       ParseIntChars(SubSeq(hhmmss, 5, 6)))
    ELSE NullDate

\* File names: a prefix, "_", six digits, "_", six digits, a suffix ...
NamePrefixes == {<<"R", "E", "C">>, <<>>, <<"C", "a", "l", "l", " ", "_", "1">>}
NameSuffixes == {<<".", "m", "4", "a">>, <<"7", ".", "m", "p", "3">>}
YearChars   == {<<"0", "0">>, <<"2", "1">>, <<"9", "9">>}
MonthChars  == {<<"0", "1">>, <<"1", "0">>, <<"1", "2">>}
DayChars    == {<<"0", "6">>, <<"2", "8">>}
HourChars   == {<<"0", "0">>, <<"0", "8">>, <<"2", "3">>}
MinuteChars == {<<"0", "9">>, <<"5", "8">>}
SecondChars == {<<"4", "3">>, <<"5", "9">>}

PatternName(pre, yy, mm, dd, hh, mi, ss, suf) ==
    pre \o <<"_">> \o yy \o mm \o dd \o <<"_">> \o hh \o mi \o ss \o suf

\* ... and names without the pattern.
PlainNames ==
    {<<"R", "E", "C", ".", "m", "4", "a">>,
     <<"2", "1", "1", "0", "0", "6", "_", "0", "8", "5", "8", "4", "3", ".", "m", "4", "a">>,
     <<"R", "_", "2", "1", "1", "0", "0", "_", "0", "8", "5", "8", "4", "3", ".", "m", "4", "a">>,
     <<"R", "_", "2", "1", "1", "0", "0", "6", "-", "0", "8", "5", "8", "4", "3", ".", "m", "4", "a">>,
     <<"R", "_", "2", "1", "1", "0", "0", "6", "_", "0", "8", "5", "8", "4">>,
     <<"R", "_", "2", "1", "1", "0", "a", "6", "_", "0", "8", "5", "8", "4", "3">>,
     <<"R", "_", "2", "1", "1", "0", "0", "6", "7", "_", "0", "8", "5", "8", "4", "3">>,
     <<>>}

CallParseDateFromName(name) ==
    /\ call = NoCall
    /\ call' = [fn |-> "parseDateFromName", arg |-> name,
                ret |-> ParseDateFromName(name)]
    /\ UNCHANGED appVars

----------------------------------------------------------------------------
(* uploadCallRecording.  What axios.post did is the input:                  *)
(*   resolved   - the promise resolved with a response carrying data        *)
(*   response / request - whether the rejection's error carries them        *)
(*   dataMessage - error.response.data?.message ("" = none or empty)        *)
(*   message     - error.message ("" = none or empty)                       *)
(* A message built by a template literal is the sequence of its pieces.     *)
Statuses     == {"400", "500"}
DataMessages == {"", "Invalid tenant"}
StatusTexts  == {"Bad Request"}
Messages     == {"", "timeout of 30000ms exceeded"}
Payloads     == {"payload"}

AxiosOutcomes ==
    [resolved : BOOLEAN, response : BOOLEAN, request : BOOLEAN,
     status : Statuses, dataMessage : DataMessages, statusText : StatusTexts,
     message : Messages, data : Payloads]

\* Mutant of ErrorMessage: error.request tested before error.response.
ErrorMessageRequestFirst(error) ==
    IF error.request
    THEN <<"Network error: No response from server">>
    ELSE IF error.response
    THEN <<"Server error: ", error.status, " - ",
           IF error.dataMessage # "" THEN error.dataMessage ELSE error.statusText>>
    ELSE <<IF error.message # "" THEN error.message ELSE "Request setup error">>

\* The catch block's errorMessage.
ErrorMessage(error) ==
    IF error.response
    THEN <<"Server error: ", error.status, " - ",
           IF error.dataMessage # "" THEN error.dataMessage ELSE error.statusText>>
    ELSE IF error.request
    THEN <<"Network error: No response from server">>
    ELSE <<IF error.message # "" THEN error.message ELSE "Request setup error">>

\* uploadCallRecording: one axios.post inside try; posts counts the calls of
\* axios.post, threw tells whether the function's promise rejected.
UploadCallRecording(outcome) ==
    IF outcome.resolved
    THEN [success |-> TRUE, data |-> outcome.data, error |-> <<>>,
          posts |-> 1, threw |-> FALSE]
    ELSE [success |-> FALSE, data |-> "", error |-> ErrorMessage(outcome),
          posts |-> 1, threw |-> FALSE]

CallUploadCallRecording(outcome) ==
    /\ call = NoCall
    /\ call' = [fn |-> "uploadCallRecording", arg |-> outcome,
                ret |-> UploadCallRecording(outcome)]
    /\ UNCHANGED appVars

----------------------------------------------------------------------------
(* fetchRecordings and the audio filter of a poll pass, applied to a        *)
(* directory listing: a sequence of entries with isFile(), the name's       *)
(* extension and the resolved modification time.                            *)
MaxAudio == 11
MaxOther == 2
MaxDirs  == 1

\* sorted.slice(0, 10)
RecordingsLimit == 10

\* A listing of m audio files, n files of other extensions and d directories
\* whose name ends in .mp3, in that order, with distinct times.
Listing(m, n, d) ==
    [i \in 1..(m + n + d) |->
        IF i <= m
        THEN [isFile |-> TRUE, ext |-> IF i % 2 = 1 THEN ".mp3" ELSE ".m4a", time |-> i]
        ELSE IF i <= m + n
        THEN [isFile |-> TRUE, ext |-> IF i % 2 = 1 THEN ".txt" ELSE ".MP3", time |-> i]
        ELSE [isFile |-> FALSE, ext |-> ".mp3", time |-> i]]

\* Mutant of IsAudioFile: the filter without f.isFile().
IsAudioFileAnyEntry(f) == f.ext \in {".mp3", ".m4a"}

\* f.isFile() && (f.name.endsWith('.mp3') || f.name.endsWith('.m4a'))
IsAudioFile(f) == f.isFile /\ f.ext \in {".mp3", ".m4a"}

\* audioFiles of checkForNewRecordings
PollAudioFiles(listing) == SelectSeq(listing, IsAudioFile)

\* array.sort((a, b) => bt - at): newest first
RECURSIVE SortNewestFirst(_)
SortNewestFirst(s) ==
    IF Len(s) <= 1 THEN s
    ELSE LET i == CHOOSE j \in 1..Len(s) : \A k \in 1..Len(s) : s[k].time <= s[j].time
             rest == SubSeq(s, 1, i - 1) \o SubSeq(s, i + 1, Len(s))
         IN  <<s[i]>> \o SortNewestFirst(rest)

\* array.slice(0, end)
SliceTo(s, end) == SubSeq(s, 1, IF Len(s) < end THEN Len(s) ELSE end)

\* fetchRecordings of the Recordings screen: filter, sort, keep the first 10.
FetchRecordings(listing) ==
    SliceTo(SortNewestFirst(SelectSeq(listing, IsAudioFile)), RecordingsLimit)

\* fetchRecordings of the earlier Recordings screen: filter and sort.
FetchRecordingsUnlimited(listing) ==
    SortNewestFirst(SelectSeq(listing, IsAudioFile))

CallFetchRecordings(m, n, d) ==
    /\ call = NoCall
    /\ call' = [fn |-> "fetchRecordings", arg |-> [m |-> m, n |-> n, d |-> d],
                ret |-> [recordings |-> FetchRecordings(Listing(m, n, d)),
                         audioFiles |-> PollAudioFiles(Listing(m, n, d)),
                         unlimited |-> FetchRecordingsUnlimited(Listing(m, n, d))]]
    /\ UNCHANGED appVars

\* The phone number of the upload request:
\* cleanNumber(recording.name.split('_')[0].split(' ')[2])
PhoneNumber(name) == CleanNumber(NameTokens(name)[3])

\* fetchRecordings when RNFS.readDir rejects: catch { setRecordings([]) }
\* finally { setIsLoading(false) }
FetchRecordingsOnError(recordings) == [recordings |-> <<>>, isLoading |-> FALSE]

----------------------------------------------------------------------------
(* Each behaviour applies one helper function to one of the inputs drawn    *)
(* above.                                                                   *)
FnNext ==
    \/ \E number \in Numbers : CallCleanNumber(number)
    \/ \E pre \in NamePrefixes, yy \in YearChars, mm \in MonthChars, dd \in DayChars,
          hh \in HourChars, mi \in MinuteChars, ss \in SecondChars, suf \in NameSuffixes :
          CallParseDateFromName(PatternName(pre, yy, mm, dd, hh, mi, ss, suf))
    \/ \E name \in PlainNames : CallParseDateFromName(name)
    \/ \E outcome \in AxiosOutcomes : CallUploadCallRecording(outcome)
    \/ \E m \in 0..MaxAudio, n \in 0..MaxOther, d \in 0..MaxDirs : CallFetchRecordings(m, n, d)

FnSpec == Init /\ [][FnNext]_vars

----------------------------------------------------------------------------
(* The pipeline alone: the state the app is in once a profile has logged in *)
(* and pressed Start (Login, InitializeApp, StartService, StartDone), then  *)
(* the folder, the one loop instance, Stop, and the Recordings screen's     *)
(* foreground scan failing.  Up to PipelineFiles recordings appear.         *)
PipelineInit ==
    /\ stUserData = 1
    /\ stTimestamp = <<>>
    /\ stRunning = "true"
    /\ hostRunning = TRUE
    /\ screen = "recordings"
    /\ userData = 1
    /\ isBackgroundServiceRunning = TRUE
    /\ initPending = FALSE
    /\ startPending = 0
    /\ logoutAlert = "none"
    /\ files = [f \in FileIds |-> NoFile]
    /\ pc = [l \in Loops |-> IF l = 1 THEN "wait" ELSE "none"]
    /\ loopUser = [l \in Loops |-> IF l = 1 THEN 1 ELSE 0]
    /\ newRecordings = [l \in Loops |-> <<>>]
    /\ results = [l \in Loops |-> <<>>]
    /\ lastPass = [l \in Loops |-> "none"]
    /\ prevFailed = [l \in Loops |-> {}]
    /\ uploaded = {}
    /\ firstTimestamp = -1
    /\ call = NoCall

\* The Refresh button (or the folder effect) runs fetchRecordings while the
\* screen shows a list of one recording, and RNFS.readDir rejects.
FetchRecordingsFails ==
    /\ screen = "recordings"
    /\ call' = [fn |-> "fetchRecordings",
                arg |-> FetchRecordings(Listing(1, 0, 0)),
                ret |-> FetchRecordingsOnError(FetchRecordings(Listing(1, 0, 0)))]
    /\ UNCHANGED appVars

PipelineNext ==
    \/ \E f \in FileIds, t \in 1..PipelineTime, n \in BOOLEAN : FileAppears(f, t, n)
    \/ StopService
    \/ LoopExit(1)
    \/ PassFails(1)
    \/ PassScan(1)
    \/ PassScanFirst(1)
    \/ \E f \in FileIds : PassScanStat(1, f)
    \/ UploadSuccess(1)
    \/ UploadFailure(1)
    \/ PauseNext(1)
    \/ PassEnd(1)
    \/ FetchRecordingsFails

PipelineSpec == PipelineInit /\ [][PipelineNext]_vars /\ WF_vars(LoopStep(1))

----------------------------------------------------------------------------
(* Sessions: SessionProfiles profiles log in and out of one installation;   *)
(* the folder stays empty, so that a pass only reads or initialises the     *)
(* watermark.                                                               *)
SessionNext ==
    \/ \E p \in 1..SessionProfiles : Login(p)
    \/ InitializeApp
    \/ \E l \in Loops : StartService(l)
    \/ StartDone
    \/ StopService
    \/ LogoutPress
    \/ LogoutCancel
    \/ LogoutConfirm
    \/ \E l \in Loops : LoopExit(l)
    \/ \E l \in Loops : PassNoProfile(l)
    \/ \E l \in Loops : PassScan(l)
    \/ \E l \in Loops : PassScanFirst(l)

SessionSpec == Init /\ [][SessionNext]_vars

----------------------------------------------------------------------------
(* Properties *)

Max(S) == CHOOSE x \in S : \A y \in S : y <= x

Live(l) == pc[l] \notin {"none", "done", "crashed"}

\* C1: the persisted lastRecordingTimestamp never decreases: every step that
\* leaves a stored watermark leaves one that is at least the previous value.
WatermarkMonotone ==
    [][stTimestamp # <<>> =>
          /\ stTimestamp' # <<>>
          /\ ParseInt(stTimestamp') >= ParseInt(stTimestamp)]_vars

\* C2: whenever no pass is in progress, every audio file whose timestamp is
\* above the watermark's initial value and at or below the persisted watermark
\* has been uploaded successfully.
WatermarkMeaning ==
    ((\A l \in Loops : ~InPass(l)) /\ stTimestamp # <<>>) =>
        \A f \in AudioFiles :
            (FileTime(f) > firstTimestamp /\ FileTime(f) <= Watermark)
                => f \in uploaded

\* The service keeps running with a profile: the host reports the task alive
\* and a loop instance holding a profile is executing.
ServiceRunning ==
    /\ hostRunning
    /\ \E l \in Loops : Live(l) /\ loopUser[l] # 0

\* C3: while the service keeps running with a profile, every audio file whose
\* timestamp exceeds the persisted watermark (and whose upload can be
\* attempted) is eventually uploaded successfully.
EventualUpload ==
    \A f \in FileIds :
        (<>[]ServiceRunning) =>
            []((files[f].exists /\ files[f].named /\ stTimestamp # <<>>
                    /\ FileTime(f) > Watermark)
                => <>(f \in uploaded))

\* The pass of loop instance l has processed all its candidates.
PassOver(l) == pc[l] = "pause" /\ Len(results[l]) = Len(newRecordings[l])

\* C4: a pass that selected two files of timestamps T1 < T2 and uploaded both
\* successfully ends with the persisted watermark equal to T2, whichever the
\* discovery order.
TwoFileScenario ==
    \A l \in Loops :
        (/\ PassOver(l)
         /\ \A k \in Loops \ {l} : ~Live(k)
         /\ Len(newRecordings[l]) = 2
         /\ results[l] = <<"ok", "ok">>)
        => Watermark = Max({FileTime(f) : f \in Range(newRecordings[l])})

\* The part of C4 the code keeps: the last successful upload of a pass leaves
\* the watermark at that candidate's timestamp.
TwoFilePassReached ==
    \E l \in Loops :
        /\ PassOver(l)
        /\ Len(newRecordings[l]) = 2
        /\ results[l] = <<"ok", "ok">>

\* C5: a pass started with a stored watermark W and every audio file at or
\* before W selects nothing, issues no upload and changes nothing that
\* persists; so does every repetition of it.
EmptyPassIdempotent ==
    [][\A l \in Loops :
          (/\ PassScan(l)
           /\ \A f \in AudioFiles : FileTime(f) <= Watermark)
          => /\ pc'[l] = "wait"
             /\ newRecordings'[l] = <<>>
             /\ lastPass'[l] = "empty"
             /\ UNCHANGED <<storeVars, hostRunning, uiVars, files, pc,
                            newRecordings, results, histVars>>]_vars

EmptyPassSeen ==
    \E l \in Loops :
        /\ pc[l] = "wait"
        /\ lastPass[l] = "empty"
        /\ stTimestamp # <<>>
        /\ AudioFiles # {}
        /\ \A f \in AudioFiles : FileTime(f) <= Watermark

\* A candidate of loop instance l was processed in this step without success.
Unsuccessful(l) ==
    /\ Len(results'[l]) > 0
    /\ results'[l][Len(results'[l])] # "ok"
    /\ \/ Len(results'[l]) = Len(results[l]) + 1
       \/ (pc[l] = "wait" /\ pc'[l] = "pause")

\* C6: processing a candidate whose upload returns a Failure result, or for
\* which sendRecordingToAPI catches an exception, leaves the persisted
\* watermark as it was (the only write such a step can contain is the
\* first-read initialisation that precedes the candidate).
FailureKeepsWatermark ==
    [][\A l \in Loops :
          Unsuccessful(l) =>
              \/ stTimestamp' = stTimestamp
              \/ (stTimestamp = <<>> /\ ParseInt(stTimestamp') = firstTimestamp')]_vars

FailureSeen ==
    \E l \in Loops :
        /\ pc[l] = "pause"
        /\ results[l] # <<>>
        /\ results[l][Len(results[l])] = "failed"
        /\ FileTime(newRecordings[l][Len(results[l])]) > Watermark

\* C7: a candidate whose upload failed in a pass is selected again by the next
\* pass of the running service (the only loop instance executing).
RetryNextTick ==
    [][\A l \in Loops :
          (/\ PassScan(l)
           /\ \A k \in Loops \ {l} : ~Live(k)
           /\ prevFailed[l] # {})
              => prevFailed[l] \subseteq Range(newRecordings'[l])]_vars

\* C8: at most one loop instance is inside a pass.
NoConcurrentPasses == Cardinality({l \in Loops : InPass(l)}) <= 1

\* C9: a stop only clears the host's running mark: it aborts no upload in
\* flight and moves no loop instance; an awaited upload ends with its result
\* recorded; and a loop instance that evaluates the loop condition while the
\* host is stopped exits without beginning a pass.
CooperativeStop ==
    [][/\ (hostRunning /\ ~hostRunning')
            => UNCHANGED <<pc, newRecordings, results, stTimestamp, uploaded>>
       /\ \A l \in Loops :
             /\ (pc[l] = "upload" /\ pc'[l] # "upload")
                   => /\ pc'[l] = "pause"
                      /\ Len(results'[l]) = Len(results[l]) + 1
                      /\ newRecordings'[l] = newRecordings[l]
             /\ (pc[l] = "wait" /\ ~hostRunning /\ pc'[l] # "wait")
                   => pc'[l] = "done"]_vars

StopMidUpload ==
    \E l \in Loops : pc[l] = "upload" /\ ~hostRunning

\* C10: once every start and stop action has returned, the task is alive with
\* the host only if the persisted backgroundServiceRunning flag is "true".
AliveImpliesFlag ==
    (startPending = 0 /\ hostRunning) => stRunning = "true"

\* C11: the step of the confirmed logout that removes the persisted userData
\* leaves the background task not alive with the host.
LogoutStopsFirst ==
    [][(stUserData # 0 /\ stUserData' = 0) => ~hostRunning']_vars

\* C12: every pass uses the profile persisted under userData at the moment
\* the pass starts (no profile when none is persisted).
ProfileReadPerPass ==
    [][\A l \in Loops :
          (PassNoProfile(l) \/ PassFails(l) \/ PassScan(l) \/ PassScanFirst(l))
              => loopUser[l] = stUserData]_vars

\* C13: whatever step of the tick loop fails, a launched loop instance whose
\* task the host reports alive is eventually back at the head of the loop,
\* where the next pass begins (or it has exited after a stop).
LoopKeepsRunning ==
    \A l \in Loops :
        []((pc[l] \notin {"none", "done"} /\ hostRunning)
              => <>(pc[l] \in {"wait", "done"} \/ ~hostRunning))

\* What the catch block answers for an error without response and request,
\* as C14 states it: the underlying error text.
ExpectedUpload(o, otherText) ==
    IF o.resolved
    THEN [success |-> TRUE, data |-> o.data, error |-> <<>>]
    ELSE [success |-> FALSE, data |-> "",
          error |-> IF o.response
                    THEN <<"Server error: ", o.status, " - ",
                           IF o.dataMessage # "" THEN o.dataMessage ELSE o.statusText>>
                    ELSE IF o.request
                    THEN <<"Network error: No response from server">>
                    ELSE <<otherText>>]

\* C14 as stated: uploadCallRecording never throws, posts exactly once,
\* answers Success(data) when the POST resolves and otherwise Failure with the
\* "Server error: ..." text, the "Network error: ..." text, or else the
\* underlying error text.
UploadOutcome ==
    call.fn = "uploadCallRecording" =>
        /\ ~call.ret.threw
        /\ call.ret.posts = 1
        /\ [success |-> call.ret.success, data |-> call.ret.data, error |-> call.ret.error]
              = ExpectedUpload(call.arg, call.arg.message)

\* C14 amended: as stated, except that an error without response and request
\* whose text is missing or empty yields "Request setup error".
UploadOutcomeWithDefault ==
    call.fn = "uploadCallRecording" =>
        /\ ~call.ret.threw
        /\ call.ret.posts = 1
        /\ [success |-> call.ret.success, data |-> call.ret.data, error |-> call.ret.error]
              = ExpectedUpload(call.arg,
                    IF call.arg.message # "" THEN call.arg.message
                    ELSE "Request setup error")

UploadDefaultSeen ==
    /\ call.fn = "uploadCallRecording"
    /\ ~call.arg.resolved /\ ~call.arg.response /\ ~call.arg.request
    /\ call.arg.message = ""
    /\ call.ret.error = <<"Request setup error">>

\* C15 as stated: for a directory with M regular files named *.mp3 or *.m4a
\* among other entries, the recordings list of fetchRecordings and the
\* audioFiles of a poll pass each hold exactly M entries, for every M.
ScanCardinality ==
    call.fn = "fetchRecordings" =>
        /\ Len(call.ret.audioFiles) = call.arg.m
        /\ Len(call.ret.unlimited) = call.arg.m
        /\ Len(call.ret.recordings) = call.arg.m

\* C15 amended: the audioFiles of a poll pass (and the list of the earlier
\* screen) hold exactly M entries; the recordings list of fetchRecordings
\* holds the min(M, 10) newest of them.
ScanCardinalityLimited ==
    call.fn = "fetchRecordings" =>
        /\ Len(call.ret.audioFiles) = call.arg.m
        /\ Len(call.ret.unlimited) = call.arg.m
        /\ Len(call.ret.recordings) =
              (IF call.arg.m < 10 THEN call.arg.m ELSE 10)
        /\ call.ret.recordings =
              SubSeq(call.ret.unlimited, 1, Len(call.ret.recordings))
        /\ \A i \in 1..Len(call.ret.unlimited) :
              /\ call.ret.unlimited[i].isFile
              /\ call.ret.unlimited[i].ext \in {".mp3", ".m4a"}
              /\ \A j \in 1..i : call.ret.unlimited[j].time >= call.ret.unlimited[i].time

ManyRecordingsSeen ==
    /\ call.fn = "fetchRecordings"
    /\ call.arg.m > 10
    /\ call.arg.n > 0
    /\ call.arg.d > 0
    /\ Len(call.ret.recordings) = 10
    /\ Len(call.ret.audioFiles) = call.arg.m

\* C16: cleanNumber removes exactly one prefix, the first of "+91", "91", "0"
\* the number starts with, or nothing; the four spellings of 9876543210 all
\* give 9876543210.
CleanNumberPrecedence ==
    call.fn = "cleanNumber" =>
        LET prefixes == << <<"+", "9", "1">>, <<"9", "1">>, <<"0">> >>
            hits == {i \in 1..3 : StartsWith(call.arg, prefixes[i])}
            removed == IF hits = {} THEN <<>>
                       ELSE prefixes[CHOOSE i \in hits : \A j \in hits : i <= j]
        IN  /\ call.arg = removed \o call.ret
            /\ call.arg \in {<<"+", "9", "1">> \o TenDigits, <<"9", "1">> \o TenDigits,
                             <<"0">> \o TenDigits, TenDigits}
                  => call.ret = TenDigits

CleanNumberSeen ==
    /\ call.fn = "cleanNumber"
    /\ call.arg = <<"+", "9", "1">> \o TenDigits
    /\ call.ret = TenDigits

\* The number two digit characters spell.
TwoDigits(c) == 10 * DigitValue(c[1]) + DigitValue(c[2])

\* C17: for a name containing "_", six digits, "_", six digits,
\* parseDateFromName gives the local time with year 2000 + yy, month index
\* mm - 1, day dd, hour hh, minute mi, second ss; REC_211006_085843.m4a gives
\* 2021, month index 9, day 6, 08:58:43; a name without the pattern gives null.
FilenameTimestampDecoding ==
    call.fn = "parseDateFromName" =>
        /\ \A pre \in NamePrefixes, yy \in YearChars, mm \in MonthChars,
              dd \in DayChars, hh \in HourChars, mi \in MinuteChars,
              ss \in SecondChars, suf \in NameSuffixes :
              call.arg = PatternName(pre, yy, mm, dd, hh, mi, ss, suf)
                 => call.ret = [isNull |-> FALSE, year |-> 2000 + TwoDigits(yy),
                                month |-> TwoDigits(mm) - 1, day |-> TwoDigits(dd),
                                hour |-> TwoDigits(hh), min |-> TwoDigits(mi),
                                sec |-> TwoDigits(ss)]
        /\ call.arg \in PlainNames => call.ret.isNull
        /\ call.arg = <<"R", "E", "C", "_", "2", "1", "1", "0", "0", "6", "_",
                        "0", "8", "5", "8", "4", "3", ".", "m", "4", "a">>
              => call.ret = [isNull |-> FALSE, year |-> 2021, month |-> 9, day |-> 6,
                             hour |-> 8, min |-> 58, sec |-> 43]

FilenameExampleSeen ==
    /\ call.fn = "parseDateFromName"
    /\ call.arg = <<"R", "E", "C", "_", "2", "1", "1", "0", "0", "6", "_",
                    "0", "8", "5", "8", "4", "3", ".", "m", "4", "a">>
    /\ call.ret.year = 2021 /\ call.ret.month = 9 /\ call.ret.day = 6
    /\ call.ret.hour = 8 /\ call.ret.min = 58 /\ call.ret.sec = 43

AdvanceOnlyOnSuccess ==
    [][stTimestamp' # stTimestamp =>
          \/ (stTimestamp = <<>> /\ ParseInt(stTimestamp') = firstTimestamp')
          \/ \E l \in Loops :
                /\ pc[l] = "upload"
                /\ results'[l] = Append(results[l], "ok")
                /\ RecordingMtime(Current(l)) # 0
                /\ ParseInt(stTimestamp') = RecordingMtime(Current(l))]_vars

AdvanceSeen ==
    \E l \in Loops :
        /\ pc[l] = "pause"
        /\ results[l] # <<>>
        /\ results[l][Len(results[l])] = "ok"
        /\ Watermark = FileTime(newRecordings[l][Len(results[l])])
        /\ Watermark # firstTimestamp
        /\ \E f \in AudioFiles : FileTime(f) # Watermark

\* What belongs to loop instance l.
LoopState(l) == <<pc[l], newRecordings[l], results[l], lastPass[l], prevFailed[l]>>

\* C20: a pass that starts with no profile scans nothing, uploads nothing and
\* leaves the persisted watermark, absent or not, as it was.
MissingProfileNoOp ==
    [][\A l \in Loops :
          (/\ pc[l] = "wait" /\ hostRunning /\ loopUser[l] = 0
           /\ LoopState(l)' # LoopState(l)
           /\ pc'[l] # "crashed")
          => /\ lastPass'[l] = "noprofile"
             /\ pc'[l] = "wait"
             /\ UNCHANGED <<storeVars, files, newRecordings, results, histVars>>]_vars

NoProfilePassSeen ==
    \E l \in Loops :
        /\ pc[l] = "wait"
        /\ lastPass[l] = "noprofile"
        /\ stTimestamp = <<>>
        /\ AudioFiles # {}

\* C21: a pass that finds the folder missing or cannot list it starts no
\* upload, leaves the persisted watermark and the uploaded files as they were
\* and returns to the tick loop, which goes on waiting for its next tick; a
\* foreground scan that cannot list the folder shows an empty list and clears
\* the loading indicator.
ScannerFailureEmpty ==
    [][/\ PassFails(1)
             => /\ pc'[1] = "wait"
                /\ lastPass'[1] = "error"
                /\ UNCHANGED <<storeVars, hostRunning, files, newRecordings,
                               results, histVars>>
       /\ FetchRecordingsFails
             => /\ call'.ret.recordings = <<>>
                /\ call'.ret.isLoading = FALSE
                /\ UNCHANGED appVars]_vars

ScannerFailureSeen ==
    /\ pc[1] = "wait"
    /\ lastPass[1] = "error"
    /\ stTimestamp = <<>>
    /\ AudioFiles # {}
    /\ uploaded = {}
    /\ call.fn = "fetchRecordings"
    /\ call.arg # <<>>
    /\ call.ret.recordings = <<>>

\* C23: inside a pass the candidates are taken in the order of newRecordings,
\* one at a time: an upload starts only from the loop head (first candidate)
\* or from the pause after the candidate before it, whose result is then
\* recorded; while an upload is awaited the instance starts nothing else; the
\* return of an upload records its result, and on Success the watermark holds
\* the candidate's timestamp at that same step, before the pause.
SequentialUploads ==
    [][\A l \in Loops :
          /\ (pc[l] # "upload" /\ pc'[l] = "upload")
                => \/ pc[l] = "wait" /\ results'[l] = <<>>
                   \/ /\ pc[l] = "pause"
                      /\ results'[l] = results[l]
                      /\ newRecordings'[l] = newRecordings[l]
                      /\ Len(results[l]) < Len(newRecordings[l])
          /\ pc[l] = "upload"
                => \/ UNCHANGED <<pc[l], newRecordings[l], results[l]>>
                   \/ /\ pc'[l] = "pause"
                      /\ newRecordings'[l] = newRecordings[l]
                      /\ \E r \in {"ok", "failed"} :
                            /\ results'[l] = Append(results[l], r)
                            /\ r = "ok" => ParseInt(stTimestamp') = RecordingMtime(Current(l))
          /\ (pc[l] = "pause" /\ pc'[l] = "pause")
                => \/ UNCHANGED <<newRecordings[l], results[l]>>
                   \/ /\ newRecordings'[l] = newRecordings[l]
                      /\ results'[l] = Append(results[l], "threw")]_vars

ThirdUploadAfterTwo ==
    \E l \in Loops :
        /\ pc[l] = "upload"
        /\ newRecordings[l] = <<3, 1, 2>>
        /\ results[l] = <<"ok", "failed">>
        /\ Watermark = FileTime(3)

\* C27: a file whose upload returned Success (its timestamp never changes in
\* the folder) is never the candidate of a later upload, in the same pass or
\* in a later one.
NoDuplicateUpload ==
    [][\A l \in Loops :
          (pc[l] # "upload" /\ pc'[l] = "upload")
              => newRecordings'[l][Len(results'[l]) + 1] \notin uploaded]_vars

\* The part of a name before its first "_" (the whole name without one).
BeforeUnderscore(name) ==
    LET at == {i \in 1..Len(name) : name[i] = "_"}
    IN  IF at = {} THEN name
        ELSE SubSeq(name, 1, (CHOOSE i \in at : \A j \in at : i <= j) - 1)

\* The positions of the spaces of a string, and the n-th of them.
Spaces(s) == {i \in 1..Len(s) : s[i] = " "}
NthSpace(s, n) == CHOOSE i \in Spaces(s) : Cardinality({j \in Spaces(s) : j <= i}) = n

\* A name has a third word before its first "_" when two spaces come before it.
HasThirdWord(name) == Cardinality(Spaces(BeforeUnderscore(name))) >= 2

\* The third word: what stands between the second space and the third one (or
\* the end).
ThirdWord(name) ==
    LET head == BeforeUnderscore(name)
        last == IF Cardinality(Spaces(head)) >= 3 THEN NthSpace(head, 3) - 1
                ELSE Len(head)
    IN  SubSeq(head, NthSpace(head, 2) + 1, last)

\* C28: an upload request is issued only for a candidate whose name has a
\* third word before the first "_", and its phone number is cleanNumber of that
\* word (9876543210 for "Call to +919876543210_..."); a candidate without one
\* gets no request: the throw is recorded, the watermark and the uploaded
\* files stay as they were and the pass goes on to its pause; every candidate
\* of the pass gets its turn before the pass ends.
PhoneNumberExtraction ==
    [][\A l \in Loops :
          /\ (pc[l] # "upload" /\ pc'[l] = "upload")
                => LET name == RecordingName(newRecordings'[l][Len(results'[l]) + 1])
                   IN  /\ HasThirdWord(name)
                       /\ PhoneNumber(name) = CleanNumber(ThirdWord(name))
                       /\ PhoneNumber(name) = TenDigits
          /\ (results'[l] # results[l] /\ results'[l] # <<>>
                 /\ results'[l][Len(results'[l])] = "threw")
                => /\ ~HasThirdWord(RecordingName(newRecordings'[l][Len(results'[l])]))
                   /\ pc'[l] = "pause"
                   /\ uploaded' = uploaded
                   /\ \/ stTimestamp' = stTimestamp
                      \/ stTimestamp = <<>> /\ ParseInt(stTimestamp') = firstTimestamp'
          /\ \A i \in 1..Len(results'[l]) :
                results'[l][i] = "threw"
                    <=> ~HasThirdWord(RecordingName(newRecordings'[l][i]))
          /\ (InPass(l) /\ ~InPass(l)')
                => Len(results[l]) = Len(newRecordings[l])]_vars

ThrowThenUpload ==
    /\ pc[1] = "pause"
    /\ Len(newRecordings[1]) = 3
    /\ results[1] = <<"threw", "ok">>
    /\ uploaded = {newRecordings[1][2]}
    /\ Watermark = FileTime(newRecordings[1][2])

\* C26: when reading the metadata of one audio file fails during a pass, that
\* file is not a candidate of the pass, even when its timestamp is above the
\* watermark, and nothing is stored for it; the candidates of the pass are
\* exactly the other audio files whose timestamp is above the watermark read
\* (the value initialised when it was absent), and the first of them is
\* taken at once.
StatFailureIsolated ==
    [][\A f \in FileIds :
          PassScanStat(1, f)
              => LET read == IF stTimestamp = <<>> THEN firstTimestamp'
                             ELSE ParseInt(stTimestamp)
                     others == {g \in AudioFiles \ {f} : FileTime(g) > read}
                 IN  /\ f \notin Range(newRecordings'[1])
                     /\ uploaded' = uploaded
                     /\ stTimestamp # <<>> => stTimestamp' = stTimestamp
                     /\ stTimestamp = <<>> => ParseInt(stTimestamp') = firstTimestamp'
                     /\ others # {}
                           => /\ Range(newRecordings'[1]) = others
                              /\ Len(newRecordings'[1]) = Cardinality(others)
                              /\ pc'[1] \in {"upload", "pause"}
                              /\ lastPass'[1] = "uploads"
                     /\ others = {} => pc'[1] = "wait" /\ lastPass'[1] = "empty"]_vars

StatFailureSeen ==
    /\ pc[1] = "upload"
    /\ results[1] = <<>>
    /\ newRecordings[1] = <<3, 2>>
    /\ files[1].exists
    /\ FileTime(1) > Watermark
    /\ 1 \notin uploaded

Overtaken(a) ==
    /\ pc[1] = "pause"
    /\ Len(results[1]) = Len(newRecordings[1])
    /\ \E i, j \in 1..Len(results[1]) :
          /\ i < j
          /\ newRecordings[1][i] = a
          /\ results[1][i] = "failed"
          /\ results[1][j] = "ok"
          /\ FileTime(newRecordings[1][j]) > FileTime(a)

\* C25: a candidate whose upload failed and which was overtaken in its pass
\* by the successful upload of a later-processed candidate with a later
\* timestamp is a candidate of no later pass; and a pass that reads every
\* file's metadata selects a candidate that failed in the pass before exactly
\* when its timestamp is above the watermark the pass reads.
Overtaking ==
    /\ \A a \in FileIds :
          [](Overtaken(a) => [](pc[1] = "wait" => [](a \notin Range(newRecordings[1]))))
    /\ [][\A a \in prevFailed[1] :
             PassScan(1) => (a \in Range(newRecordings'[1])
                               <=> FileTime(a) > ParseInt(stTimestamp))]_vars

====
